---- MODULE Spec2Model ----
(***************************************************************************)
(* Dense matrix product C = A * B on a CUDA device, as driven by the two   *)
(* host programs SimpleMatrixMultiplication.cpp (one thread per output     *)
(* element, global memory only) and TiledMatrixMultiplication.cpp (tiles   *)
(* staged in __shared__ memory).  The host program is a straight line of   *)
(* CUDA calls, each wrapped in wbCheck; the device runs the blocks of the  *)
(* launched grid asynchronously until cudaDeviceSynchronize.               *)
(*                                                                         *)
(* Matrices are row-major buffers indexed from 0, as in the source.        *)
(* Entries are integers: every float operation of the kernels is exact on  *)
(* them, so rounding plays no part in what is checked here.                *)
(***************************************************************************)
EXTENDS Integers, Sequences, FiniteSets, TLC

\* ---------------------------------------------------------------- bounds
\* Largest number of rows or columns of an imported matrix.
MaxDim == 3
\* Largest tile width.  The source fixes TILE_WIDTH at 16; the model ranges
\* over the small widths 2..MaxTileWidth so that partial edge tiles, several
\* blocks and several tile iterations all occur within MaxDim.
MaxTileWidth == 3

Dims == 1..MaxDim
TileWidths == 2..MaxTileWidth
Strategies == {"Naive", "Tiled"}
\* What a read of an uninitialised or out-of-range device/host cell may yield.
GarbageValues == {0, 7}
\* First entry of the imported "ramp" matrices (entry i of the buffer is
\* base + i): A counts from 1 and B from 5, so that the 2 x 2 files are
\* [[1,2],[3,4]] and [[5,6],[7,8]].
RampBaseA == 1
RampBaseB == 5

\* ------------------------------------------------------ host matrices
Cells(rows, cols) == 0..(rows * cols - 1)

Ramp(rows, cols, base) == [i \in Cells(rows, cols) |-> base + i]

Identity(k) == [i \in Cells(k, k) |-> IF i \div k = i % k THEN 1 ELSE 0]

\* A single 1 at buffer position k, 0 elsewhere.
Unit(rows, cols, k) == [i \in Cells(rows, cols) |-> IF i = k THEN 1 ELSE 0]

\* The matrices wbImport may deliver for a file of the given dimensions:
\* the ramp (all entries distinct), the matrices with a single 1 in the
\* first or in the last cell and, for a square file, the identity.
Matrices(rows, cols, base) ==
    {Ramp(rows, cols, base)}
        \cup {Unit(rows, cols, k) : k \in {0, rows * cols - 1}}
        \cup (IF rows = cols THEN {Identity(rows)} ELSE {})

\* ------------------------------------------------------ 32-bit arithmetic
\* INT_MAX of the 32-bit int; unsigned values are taken modulo 2 * (INT_MAX + 1).
IntMax == 2147483647

\* (unsigned) i / w for an int i and an unsigned w >= 2: a negative i converts
\* to INT_MAX + 1 + (INT_MAX + 1 + i), and the quotient is computed piecewise
\* so that no intermediate value leaves the 32-bit range.
UnsignedDiv(i, w) ==
    IF i >= 0
    THEN i \div w
    ELSE LET lo == IntMax + (i + 1)
         IN  (IntMax \div w) + (lo \div w)
                 + ((IntMax % w) + (lo % w) + 1) \div w

VARIABLES
    strategy,      \* which of the two programs runs
    TILE_WIDTH,    \* const unsigned TILE_WIDTH
    garbage,       \* value held by memory nobody has written yet
    hostA, hostB, hostC,
    numARows, numAColumns, numBRows, numBColumns, numCRows, numCColumns,
    deviceA, deviceB, deviceC,
    allocated,     \* device buffers obtained by cudaMalloc and not yet freed
    dimGrid, dimBlock,
    kernel,        \* "none", "running", "complete", "faulted", "launchFailed"
    pending,       \* blocks of the grid that have not run yet
    pc,            \* next statement of main
    ret,           \* <<>> while main runs, then <<its return value>>
    log,           \* the host steps executed so far, in order
    solution,      \* the matrices handed to wbSolution, in order
    sm,            \* thread-level view: the blocks resident on the device,
                   \* each with its threads, its __shared__ arrays and barrier
    writes,        \* thread-level view: per thread, the indices of C it stored to
    badAccess      \* thread-level view: a global index fell outside its buffer

vars == <<strategy, TILE_WIDTH, garbage, hostA, hostB, hostC,
          numARows, numAColumns, numBRows, numBColumns, numCRows, numCColumns,
          deviceA, deviceB, deviceC, allocated, dimGrid, dimBlock,
          kernel, pending, pc, ret, log, solution, sm, writes, badAccess>>

\* The thread-level view of the device; the host program sees the device
\* block by block (RunBlock) and leaves these alone.
threadVars == <<sm, writes, badAccess>>

inputVars == <<strategy, TILE_WIDTH, garbage, hostA, hostB,
               numARows, numAColumns, numBRows, numBColumns>>

NoBuffer == [i \in {} |-> 0]

Uninitialised(size) == [i \in 0..(size - 1) |-> garbage]

\* A read of a device buffer; an index outside the buffer is undefined
\* behaviour and yields whatever the memory holds.
Read(buf, idx) == IF idx \in DOMAIN buf THEN buf[idx] ELSE garbage

\* ------------------------------------------------------ launch geometry
\* Threads of one block and blocks of one grid, as <<x, y>> index pairs.
Threads(bd) == (0..(bd.x - 1)) \X (0..(bd.y - 1))

Blocks(gd) == (0..(gd.x - 1)) \X (0..(gd.y - 1))

\* (d - 1) / TILE_WIDTH + 1 with d an int and TILE_WIDTH an unsigned.
TilesFor(d) == UnsignedDiv(d - 1, TILE_WIDTH) + 1

SimpleDimGrid == [x |-> TilesFor(numCRows), y |-> TilesFor(numCColumns)]

\* Mutation: the tiled program sizing its grid rows first, as the naive one does.
TiledDimGridRowsFirst ==
    [x |-> TilesFor(numCRows), y |-> TilesFor(numCColumns)]

TiledDimGrid == [x |-> TilesFor(numCColumns), y |-> TilesFor(numCRows)]

DimBlock == [x |-> TILE_WIDTH, y |-> TILE_WIDTH]

\* ------------------------------------------------------ the naive kernel
SimpleRow(bd, b, th) == b[1] * bd.x + th[1]

\* Mutation: Col derived from the x indices, like Row.
SimpleColFromX(bd, b, th) == b[1] * bd.x + th[1]

SimpleCol(bd, b, th) == b[2] * bd.y + th[2]

\* Mutation: B indexed as if it were stored column-major.
RECURSIVE SimpleLoopColumnMajorB(_, _, _, _, _, _)
SimpleLoopColumnMajorB(A, B, Row, Col, i, Cvalue) ==
    IF i < numAColumns
    THEN SimpleLoopColumnMajorB(A, B, Row, Col, i + 1,
                    Cvalue + Read(A, Row * numAColumns + i)
                               * Read(B, Col * numBRows + i))
    ELSE Cvalue

RECURSIVE SimpleLoop(_, _, _, _, _, _)
SimpleLoop(A, B, Row, Col, i, Cvalue) ==
    IF i < numAColumns
    THEN SimpleLoop(A, B, Row, Col, i + 1,
                    Cvalue + Read(A, Row * numAColumns + i)
                               * Read(B, Col + i * numBColumns))
    ELSE Cvalue

\* The writes to C of one thread, as <<index, value>> pairs.
SimpleThread(A, B, bd, b, th) ==
    LET Row == SimpleRow(bd, b, th)
        Col == SimpleCol(bd, b, th)
    IN  IF (Row < numCRows) /\ (Col < numCColumns)
        THEN {<<Row * numCColumns + Col, SimpleLoop(A, B, Row, Col, 0, 0)>>}
        ELSE {}

SimpleBlock(A, B, bd, b) ==
    UNION {SimpleThread(A, B, bd, b, th) : th \in Threads(bd)}

\* ------------------------------------------------------ the tiled kernel
TiledCol(bd, b, th) == b[1] * bd.x + th[1]

TiledRow(bd, b, th) == b[2] * bd.y + th[2]

\* Mutation: n / TILE_WIDTH iterations, the partial last tile left out.
NumTilesRoundedDown == UnsignedDiv(numAColumns, TILE_WIDTH)

\* Number of iterations of the loop over t: t < (n - 1) / TILE_WIDTH + 1.
NumTiles == TilesFor(numAColumns)

\* Mutation: the tile load of A without the test of the column against n.
LoadAIndexNoColumnTest(bd, b, w, t) ==
    LET n == numAColumns
        A_y_coord == TiledRow(bd, b, w)
        A_x_coord == t * TILE_WIDTH + w[1]
    IN  IF A_y_coord < numCRows
        THEN {A_y_coord * n + A_x_coord}
        ELSE {}

\* The index of A the tile load of thread w reads in iteration t, if any.
LoadAIndex(bd, b, w, t) ==
    LET n == numAColumns
        A_y_coord == TiledRow(bd, b, w)
        A_x_coord == t * TILE_WIDTH + w[1]
    IN  IF (A_y_coord < numCRows) /\ (A_x_coord < n)
        THEN {A_y_coord * n + A_x_coord}
        ELSE {}

\* What thread th stores into ds_A[ty][tx] in iteration t.
LoadA(A, bd, b, th, t) ==
    LET I == LoadAIndex(bd, b, th, t)
    IN  IF I # {} THEN Read(A, CHOOSE i \in I : TRUE) ELSE 0

\* The index of B the tile load of thread w reads in iteration t, if any.
LoadBIndex(bd, b, w, t) ==
    LET n == numAColumns
        B_y_coord == t * TILE_WIDTH + w[2]
        B_x_coord == TiledCol(bd, b, w)
    IN  IF (B_x_coord < numCColumns) /\ (B_y_coord < n)
        THEN {B_y_coord * numCColumns + B_x_coord}
        ELSE {}

\* Mutation: the B tile addressed with the stride of A.
LoadBStrideOfA(B, bd, b, th, t) ==
    LET n == numAColumns
        B_y_coord == t * TILE_WIDTH + th[2]
        B_x_coord == TiledCol(bd, b, th)
    IN  IF (B_x_coord < numCColumns) /\ (B_y_coord < n)
        THEN Read(B, B_y_coord * n + B_x_coord)
        ELSE 0

\* What thread th stores into ds_B[ty][tx] in iteration t.
LoadB(B, bd, b, th, t) ==
    LET I == LoadBIndex(bd, b, th, t)
    IN  IF I # {} THEN Read(B, CHOOSE i \in I : TRUE) ELSE 0

\* The scratch arrays at the first __syncthreads of iteration t: cell
\* [ty][tx] holds the store of thread <<tx, ty>>, a cell no thread of the
\* block stores to holds what it held before.
TileA(A, bd, b, t) ==
    [y \in 0..(TILE_WIDTH - 1) |-> [x \in 0..(TILE_WIDTH - 1) |->
        IF <<x, y>> \in Threads(bd) THEN LoadA(A, bd, b, <<x, y>>, t)
                                    ELSE garbage]]

TileB(B, bd, b, t) ==
    [y \in 0..(TILE_WIDTH - 1) |-> [x \in 0..(TILE_WIDTH - 1) |->
        IF <<x, y>> \in Threads(bd) THEN LoadB(B, bd, b, <<x, y>>, t)
                                    ELSE garbage]]

\* Mutation: ds_B read with its two indices exchanged.
RECURSIVE TiledInnerSwappedB(_, _, _, _, _)
TiledInnerSwappedB(ds_A, ds_B, th, i, Cvalue) ==
    IF i < TILE_WIDTH
    THEN TiledInnerSwappedB(ds_A, ds_B, th, i + 1,
                    Cvalue + ds_A[th[2]][i] * ds_B[th[1]][i])
    ELSE Cvalue

\* for (i = 0; i < TILE_WIDTH; ++i) Cvalue += ds_A[ty][i] * ds_B[i][tx];
RECURSIVE TiledInner(_, _, _, _, _)
TiledInner(ds_A, ds_B, th, i, Cvalue) ==
    IF i < TILE_WIDTH
    THEN TiledInner(ds_A, ds_B, th, i + 1,
                    Cvalue + ds_A[th[2]][i] * ds_B[i][th[1]])
    ELSE Cvalue

\* The loop over the tiles, for all threads of block b in lock step at the
\* barriers; Cv maps each thread to its accumulator.
RECURSIVE TiledLoop(_, _, _, _, _, _)
TiledLoop(A, B, bd, b, t, Cv) ==
    IF t < NumTiles
    THEN LET ds_A == TileA(A, bd, b, t)
             ds_B == TileB(B, bd, b, t)
         IN  TiledLoop(A, B, bd, b, t + 1,
                       [th \in Threads(bd) |->
                           TiledInner(ds_A, ds_B, th, 0, Cv[th])])
    ELSE Cv

\* Mutation: the store to C without the test of (Row, Col).
TiledThreadNoBoundsTest(bd, b, th, Cvalue) ==
    {<<TiledRow(bd, b, th) * numCColumns + TiledCol(bd, b, th), Cvalue>>}

\* Tiled kernel, lines 73-74: the writes to C of one thread.
TiledThread(bd, b, th, Cvalue) ==
    LET Row == TiledRow(bd, b, th)
        Col == TiledCol(bd, b, th)
    IN  IF (Row < numCRows) /\ (Col < numCColumns)
        THEN {<<Row * numCColumns + Col, Cvalue>>}
        ELSE {}

TiledBlock(A, B, bd, b) ==
    LET Cv == TiledLoop(A, B, bd, b, 0, [th \in Threads(bd) |-> 0])
    IN  UNION {TiledThread(bd, b, th, Cv[th]) : th \in Threads(bd)}

\* ------------------------------------------------------ device memory
\* Buffer C after the writes W (pairs <<index, value>>) have landed.
ApplyWrites(C, W) ==
    [i \in DOMAIN C |->
        IF \E w \in W : w[1] = i
        THEN (CHOOSE w \in W : w[1] = i)[2]
        ELSE C[i]]

BlockWrites(strat, A, B, bd, b) ==
    IF strat = "Naive" THEN SimpleBlock(A, B, bd, b)
                       ELSE TiledBlock(A, B, bd, b)

HostDimGrid(strat) == IF strat = "Naive" THEN SimpleDimGrid ELSE TiledDimGrid

\* ------------------------------------------------------ the host program
Init ==
    /\ strategy \in Strategies
    /\ TILE_WIDTH \in TileWidths
    /\ garbage \in GarbageValues
    /\ numARows \in Dims /\ numAColumns \in Dims
    /\ numBRows \in Dims /\ numBColumns \in Dims
    /\ hostA \in Matrices(numARows, numAColumns, RampBaseA)
    /\ hostB \in Matrices(numBRows, numBColumns, RampBaseB)
    /\ hostC = NoBuffer
    /\ numCRows = 0 /\ numCColumns = 0
    /\ deviceA = NoBuffer /\ deviceB = NoBuffer /\ deviceC = NoBuffer
    /\ allocated = {}
    /\ dimGrid = [x |-> 0, y |-> 0] /\ dimBlock = [x |-> 0, y |-> 0]
    /\ kernel = "none"
    /\ pending = {}
    /\ pc = "import"
    /\ ret = <<>>
    /\ log = <<>>
    /\ solution = <<>>
    /\ sm = <<>>
    /\ writes = <<>>
    /\ badAccess = FALSE

\* The outcomes of a CUDA runtime call: success (TRUE) or an error (FALSE).
\* Once a kernel has faulted the error is sticky and every later call fails.
CallResults == IF kernel = "faulted" THEN {FALSE} ELSE BOOLEAN

\* wbCheck on an error: log it and return -1 from main.
WbCheckFail ==
    /\ pc' = "returned"
    /\ ret' = <<-1>>

Step(name, next) ==
    /\ pc' = next
    /\ log' = Append(log, name)
    /\ ret' = ret

Import ==
    /\ pc = "import"
    /\ numCRows' = numARows
    /\ numCColumns' = numBColumns
    /\ hostC' = Uninitialised(numARows * numBColumns)
    /\ Step("import", "mallocA")
    /\ UNCHANGED <<inputVars, threadVars, deviceA, deviceB, deviceC, allocated,
                   dimGrid, dimBlock, kernel, pending, solution>>

MallocA ==
    /\ pc = "mallocA"
    /\ \E ok \in CallResults :
        IF ok
        THEN /\ deviceA' = Uninitialised(numARows * numAColumns)
             /\ allocated' = allocated \cup {"A"}
             /\ Step("mallocA", "mallocB")
        ELSE /\ WbCheckFail
             /\ UNCHANGED <<deviceA, allocated, log>>
    /\ UNCHANGED <<inputVars, threadVars, hostC, numCRows, numCColumns, deviceB, deviceC,
                   dimGrid, dimBlock, kernel, pending, solution>>

MallocB ==
    /\ pc = "mallocB"
    /\ \E ok \in CallResults :
        IF ok
        THEN /\ deviceB' = Uninitialised(numBRows * numBColumns)
             /\ allocated' = allocated \cup {"B"}
             /\ Step("mallocB", "mallocC")
        ELSE /\ WbCheckFail
             /\ UNCHANGED <<deviceB, allocated, log>>
    /\ UNCHANGED <<inputVars, threadVars, hostC, numCRows, numCColumns, deviceA, deviceC,
                   dimGrid, dimBlock, kernel, pending, solution>>

MallocC ==
    /\ pc = "mallocC"
    /\ \E ok \in CallResults :
        IF ok
        THEN /\ deviceC' = Uninitialised(numCRows * numCColumns)
             /\ allocated' = allocated \cup {"C"}
             /\ Step("mallocC", "copyA")
        ELSE /\ WbCheckFail
             /\ UNCHANGED <<deviceC, allocated, log>>
    /\ UNCHANGED <<inputVars, threadVars, hostC, numCRows, numCColumns, deviceA, deviceB,
                   dimGrid, dimBlock, kernel, pending, solution>>

CopyAToDevice ==
    /\ pc = "copyA"
    /\ \E ok \in CallResults :
        IF ok
        THEN /\ deviceA' = hostA
             /\ Step("copyA", "copyB")
        ELSE /\ WbCheckFail
             /\ UNCHANGED <<deviceA, log>>
    /\ UNCHANGED <<inputVars, threadVars, hostC, numCRows, numCColumns, deviceB, deviceC,
                   allocated, dimGrid, dimBlock, kernel, pending, solution>>

CopyBToDevice ==
    /\ pc = "copyB"
    /\ \E ok \in CallResults :
        IF ok
        THEN /\ deviceB' = hostB
             /\ Step("copyB", "launch")
        ELSE /\ WbCheckFail
             /\ UNCHANGED <<deviceB, log>>
    /\ UNCHANGED <<inputVars, threadVars, hostC, numCRows, numCColumns, deviceA, deviceC,
                   allocated, dimGrid, dimBlock, kernel, pending, solution>>

\* dim3 dimGrid(...), dimBlock(...); matrixMultiply<<<dimGrid, dimBlock>>>(...).
\* The launch is asynchronous and its outcome is not looked at.
Launch ==
    /\ pc = "launch"
    /\ dimGrid' = HostDimGrid(strategy)
    /\ dimBlock' = DimBlock
    /\ \E ok \in CallResults :
        IF ok
        THEN /\ kernel' = "running"
             /\ pending' = Blocks(dimGrid')
        ELSE /\ kernel' = "launchFailed"
             /\ pending' = {}
    /\ Step("launch", "sync")
    /\ UNCHANGED <<inputVars, threadVars, hostC, numCRows, numCColumns,
                   deviceA, deviceB, deviceC, allocated, solution>>

\* The device runs one block of the grid; blocks run in any order.
RunBlock ==
    /\ kernel = "running"
    /\ \E b \in pending :
        /\ deviceC' = ApplyWrites(deviceC,
                         BlockWrites(strategy, deviceA, deviceB, dimBlock, b))
        /\ pending' = pending \ {b}
        /\ kernel' = IF pending' = {} THEN "complete" ELSE "running"
    /\ UNCHANGED <<inputVars, threadVars, hostC, numCRows, numCColumns, deviceA, deviceB,
                   allocated, dimGrid, dimBlock, pc, ret, log, solution>>

\* The device aborts the kernel (an illegal address, a hardware error).
DeviceFault ==
    /\ kernel = "running"
    /\ kernel' = "faulted"
    /\ pending' = {}
    /\ UNCHANGED <<inputVars, threadVars, hostC, numCRows, numCColumns,
                   deviceA, deviceB, deviceC, allocated, dimGrid, dimBlock,
                   pc, ret, log, solution>>

\* Mutation: the host goes on without waiting for the device.
SynchronizeNoWait ==
    /\ pc = "sync"
    /\ Step("sync", "copyC")
    /\ UNCHANGED <<inputVars, threadVars, hostC, numCRows, numCColumns,
                   deviceA, deviceB, deviceC, allocated, dimGrid, dimBlock,
                   kernel, pending, solution>>

\* cudaDeviceSynchronize(): blocks until the device is idle; its return
\* value is discarded.
Synchronize ==
    /\ pc = "sync"
    /\ kernel # "running"
    /\ Step("sync", "copyC")
    /\ UNCHANGED <<inputVars, threadVars, hostC, numCRows, numCColumns,
                   deviceA, deviceB, deviceC, allocated, dimGrid, dimBlock,
                   kernel, pending, solution>>

CopyCToHost ==
    /\ pc = "copyC"
    /\ \E ok \in CallResults :
        IF ok
        THEN /\ hostC' = deviceC
             /\ Step("copyC", "freeA")
        ELSE /\ WbCheckFail
             /\ UNCHANGED <<hostC, log>>
    /\ UNCHANGED <<inputVars, threadVars, numCRows, numCColumns, deviceA, deviceB, deviceC,
                   allocated, dimGrid, dimBlock, kernel, pending, solution>>

FreeA ==
    /\ pc = "freeA"
    /\ \E ok \in CallResults :
        IF ok
        THEN /\ deviceA' = NoBuffer
             /\ allocated' = allocated \ {"A"}
             /\ Step("freeA", "freeB")
        ELSE /\ WbCheckFail
             /\ UNCHANGED <<deviceA, allocated, log>>
    /\ UNCHANGED <<inputVars, threadVars, hostC, numCRows, numCColumns, deviceB, deviceC,
                   dimGrid, dimBlock, kernel, pending, solution>>

FreeB ==
    /\ pc = "freeB"
    /\ \E ok \in CallResults :
        IF ok
        THEN /\ deviceB' = NoBuffer
             /\ allocated' = allocated \ {"B"}
             /\ Step("freeB", "freeC")
        ELSE /\ WbCheckFail
             /\ UNCHANGED <<deviceB, allocated, log>>
    /\ UNCHANGED <<inputVars, threadVars, hostC, numCRows, numCColumns, deviceA, deviceC,
                   dimGrid, dimBlock, kernel, pending, solution>>

FreeC ==
    /\ pc = "freeC"
    /\ \E ok \in CallResults :
        IF ok
        THEN /\ deviceC' = NoBuffer
             /\ allocated' = allocated \ {"C"}
             /\ Step("freeC", "solution")
        ELSE /\ WbCheckFail
             /\ UNCHANGED <<deviceC, allocated, log>>
    /\ UNCHANGED <<inputVars, threadVars, hostC, numCRows, numCColumns, deviceA, deviceB,
                   dimGrid, dimBlock, kernel, pending, solution>>

\* wbSolution(args, hostC, numCRows, numCColumns); free(...); return 0;
Solution ==
    /\ pc = "solution"
    /\ solution' = Append(solution, hostC)
    /\ pc' = "returned"
    /\ ret' = <<0>>
    /\ log' = Append(log, "solution")
    /\ UNCHANGED <<inputVars, threadVars, hostC, numCRows, numCColumns,
                   deviceA, deviceB, deviceC, allocated, dimGrid, dimBlock,
                   kernel, pending>>

Next ==
    \/ Import
    \/ MallocA
    \/ MallocB
    \/ MallocC
    \/ CopyAToDevice
    \/ CopyBToDevice
    \/ Launch
    \/ RunBlock
    \/ DeviceFault
    \/ Synchronize
    \/ CopyCToHost
    \/ FreeA
    \/ FreeB
    \/ FreeC
    \/ Solution

Spec == Init /\ [][Next]_vars

TypeOK ==
    /\ pc \in {"import", "mallocA", "mallocB", "mallocC", "copyA", "copyB",
               "launch", "sync", "copyC", "freeA", "freeB", "freeC",
               "solution", "returned"}
    /\ ret \in {<<>>, <<0>>, <<-1>>}
    /\ allocated \subseteq {"A", "B", "C"}
    /\ kernel \in {"none", "running", "complete", "faulted", "launchFailed"}

\* ------------------------------------------------------ reference results
\* ceil(a / b) for a >= 1, b >= 1, by its defining inequalities.
CeilDiv(a, b) == CHOOSE q \in 1..a : (q * b >= a) /\ ((q - 1) * b < a)

\* sum of M[r, k] * N[k, c] for k in [0, kk), M of n columns, N of p columns.
RECURSIVE DotProduct(_, _, _, _, _, _, _)
DotProduct(M, N, n, p, r, c, kk) ==
    IF kk = 0 THEN 0
    ELSE DotProduct(M, N, n, p, r, c, kk - 1)
            + M[r * n + (kk - 1)] * N[(kk - 1) * p + c]

\* The product of M (m x n) and N (n x p) by the triple loop over r, c, k.
Reference(M, N, m, n, p) ==
    [i \in Cells(m, p) |-> DotProduct(M, N, n, p, i \div p, i % p, n)]

\* What a whole launch of the kernel of program strat, with the grid and
\* block that program's host code computes, leaves in a fresh buffer C.
KernelResult(strat) ==
    ApplyWrites(Uninitialised(numCRows * numCColumns),
                UNION {BlockWrites(strat, hostA, hostB, DimBlock, b) :
                          b \in Blocks(HostDimGrid(strat))})

OtherStrategy == IF strategy = "Naive" THEN "Tiled" ELSE "Naive"

ValidDims == numAColumns = numBRows

\* main has returned 0 after a kernel that ran to completion.
Succeeded == (pc = "returned") /\ (ret = <<0>>) /\ (kernel = "complete")

Occurs(name) == \E i \in 1..Len(log) : log[i] = name

\* Every occurrence of step later in the log has an earlier occurrence of step earlier.
Precedes(earlier, later) ==
    \A i \in 1..Len(log) :
        (log[i] = later) => \E j \in 1..(i - 1) : log[j] = earlier

\* ------------------------------------------------------ claims

\* C1: when A.columns # B.rows the call is rejected before any device work:
\* no device buffer is ever allocated, no transfer is made, no kernel is
\* launched, and main does not return success.
C1_MismatchRejectedBeforeDeviceWork ==
    (numAColumns # numBRows) =>
        /\ allocated = {}
        /\ kernel = "none"
        /\ \A i \in 1..Len(log) : log[i] = "import"
        /\ ret # <<0>>

\* C2: whenever main has returned with an error, no device buffer is still
\* allocated.
C2_ErrorReturnLeavesNoBuffer ==
    (ret = <<-1>>) => (allocated = {})

\* C3: when the kernel launch failed, or the device faulted so that the
\* blocking wait reports a failure, no result matrix reaches wbSolution.
C3_FailedKernelDeliversNothing ==
    (kernel \in {"launchFailed", "faulted"}) => (solution = <<>>)

\* C4: for A.columns = B.rows, the matrix the launched kernel leaves on the
\* device equals, element by element, the matrix the other program's kernel
\* produces from the same operands with its own grid.
C4_TiledEqualsNaive ==
    (ValidDims /\ pc = "copyC" /\ kernel = "complete") =>
        (deviceC = KernelResult(OtherStrategy))

C4_Witness ==
    /\ ValidDims /\ pc = "copyC" /\ kernel = "complete"
    /\ strategy = "Tiled"
    /\ numCRows # numCColumns
    /\ numCRows > TILE_WIDTH
    /\ numAColumns > TILE_WIDTH
    /\ hostA = Ramp(numARows, numAColumns, RampBaseA)
    /\ hostB = Ramp(numBRows, numBColumns, RampBaseB)

\* C5: for A (m x n), B (n x p), the naive program delivers
\* C[r, c] = sum over k < n of A[r, k] * B[k, c], the result of the
\* reference triple loop.
C5_NaiveMatchesReference ==
    (ValidDims /\ Succeeded /\ strategy = "Naive") =>
        (solution = <<Reference(hostA, hostB,
                                numARows, numAColumns, numBColumns)>>)

\* A single row times a single column, delivered as a 1 x 1 result.
C5_Witness ==
    /\ ValidDims /\ Succeeded /\ strategy = "Naive"
    /\ numARows = 1 /\ numBColumns = 1 /\ numAColumns > 1
    /\ hostA = Ramp(numARows, numAColumns, RampBaseA)
    /\ hostB = Ramp(numBRows, numBColumns, RampBaseB)
    /\ Len(solution) = 1

\* C6: when m, n or p is not a multiple of the tile width, the tiled program
\* still delivers C[r, c] = sum over k < n of A[r, k] * B[k, c] in every cell.
C6_TiledEdgeTilesCorrect ==
    (/\ ValidDims /\ Succeeded /\ strategy = "Tiled"
     /\ \/ numARows % TILE_WIDTH # 0
        \/ numAColumns % TILE_WIDTH # 0
        \/ numBColumns % TILE_WIDTH # 0) =>
        (solution = <<Reference(hostA, hostB,
                                numARows, numAColumns, numBColumns)>>)

\* All three dimensions are non-multiples larger than one tile.
C6_Witness ==
    /\ ValidDims /\ Succeeded /\ strategy = "Tiled"
    /\ numARows % TILE_WIDTH # 0 /\ numARows > TILE_WIDTH
    /\ numAColumns % TILE_WIDTH # 0 /\ numAColumns > TILE_WIDTH
    /\ numBColumns % TILE_WIDTH # 0 /\ numBColumns > TILE_WIDTH
    /\ hostA = Ramp(numARows, numAColumns, RampBaseA)
    /\ hostB = Ramp(numBRows, numBColumns, RampBaseB)
    /\ Len(solution) = 1

\* C7: under both programs, A times the identity is A and the identity
\* times B is B.
C7_IdentityIsNeutral ==
    (ValidDims /\ Succeeded) =>
        /\ (numBRows = numBColumns /\ hostB = Identity(numBRows))
               => (solution = <<hostA>>)
        /\ (numARows = numAColumns /\ hostA = Identity(numARows))
               => (solution = <<hostB>>)

C7_Witness ==
    /\ ValidDims /\ Succeeded
    /\ numARows = numAColumns /\ hostA = Identity(numARows)
    /\ numARows > 1
    /\ numBColumns # numBRows
    /\ hostB = Ramp(numBRows, numBColumns, RampBaseB)
    /\ solution = <<hostB>>

\* C8 as stated: under both programs the kernel is launched with grid
\* (x, y) = (ceil(rows / tileWidth), ceil(columns / tileWidth)) and block
\* (tileWidth, tileWidth).
C8_GridIsRowsByColumns ==
    Occurs("launch") =>
        /\ dimGrid = [x |-> CeilDiv(numCRows, TILE_WIDTH),
                      y |-> CeilDiv(numCColumns, TILE_WIDTH)]
        /\ dimBlock = [x |-> TILE_WIDTH, y |-> TILE_WIDTH]

\* C8 amended: the naive program launches with grid
\* (x, y) = (ceil(rows / tileWidth), ceil(columns / tileWidth)), the tiled
\* program with (x, y) = (ceil(columns / tileWidth), ceil(rows / tileWidth));
\* both with block (tileWidth, tileWidth).
C8_GridPerStrategy ==
    Occurs("launch") =>
        /\ (strategy = "Naive") =>
              dimGrid = [x |-> CeilDiv(numCRows, TILE_WIDTH),
                         y |-> CeilDiv(numCColumns, TILE_WIDTH)]
        /\ (strategy = "Tiled") =>
              dimGrid = [x |-> CeilDiv(numCColumns, TILE_WIDTH),
                         y |-> CeilDiv(numCRows, TILE_WIDTH)]
        /\ dimBlock = [x |-> TILE_WIDTH, y |-> TILE_WIDTH]

C8_Witness ==
    /\ Occurs("launch")
    /\ strategy = "Tiled"
    /\ numCRows % TILE_WIDTH # 0
    /\ dimGrid.x # dimGrid.y

\* The (Row, Col) a kernel of the running program derives for a thread.
WorkerRow(b, th) ==
    IF strategy = "Naive" THEN SimpleRow(dimBlock, b, th)
                          ELSE TiledRow(dimBlock, b, th)

WorkerCol(b, th) ==
    IF strategy = "Naive" THEN SimpleCol(dimBlock, b, th)
                          ELSE TiledCol(dimBlock, b, th)

WorkersAt(r, c) ==
    {w \in Blocks(dimGrid) \X Threads(dimBlock) :
        WorkerRow(w[1], w[2]) = r /\ WorkerCol(w[1], w[2]) = c}

\* C9: every output coordinate (r, c), r < rows, c < columns, is the
\* (Row, Col) of exactly one thread of the launched grid.
C9_EveryCellHasOneWorker ==
    (pc = "sync" /\ kernel \in {"running", "launchFailed"}) =>
        \A r \in 0..(numCRows - 1), c \in 0..(numCColumns - 1) :
            Cardinality(WorkersAt(r, c)) = 1

C9_Witness ==
    /\ pc = "sync"
    /\ strategy = "Tiled"
    /\ numCRows % TILE_WIDTH # 0 /\ numCColumns % TILE_WIDTH # 0
    /\ dimGrid.x # dimGrid.y
    /\ Cardinality(Blocks(dimGrid) \X Threads(dimBlock))
           > numCRows * numCColumns

\* C10: both operands are on the device before the launch, the wait for the
\* device comes after the launch and before the copy-back, the result is
\* delivered only after the copy-back, and from the end of the wait on (so
\* at the copy-back) no block of the kernel is running or still to run.
C10_HostStepsInOrder ==
    /\ Precedes("copyA", "launch")
    /\ Precedes("copyB", "launch")
    /\ Precedes("launch", "sync")
    /\ Precedes("sync", "copyC")
    /\ Precedes("copyC", "solution")
    /\ Occurs("launch") => (deviceA = hostA /\ deviceB = hostB) \/ Occurs("freeA")
    /\ Occurs("sync") => (kernel # "running" /\ pending = {})
    /\ (pc = "freeA" /\ kernel = "complete") =>
           hostC = KernelResult(strategy)

C10_Witness ==
    /\ Succeeded
    /\ log = <<"import", "mallocA", "mallocB", "mallocC", "copyA", "copyB",
               "launch", "sync", "copyC", "freeA", "freeB", "freeC",
               "solution">>
    /\ Cardinality(Blocks(dimGrid)) > 1

\* Number of times a step occurs in the log.
Count(name) == Cardinality({i \in 1..Len(log) : log[i] = name})

\* C11: whenever main has returned, with 0 or with an error, none of the
\* device buffers of A, B and C is still allocated; when it returned 0,
\* each buffer was released exactly once and only after the copy-back of C.
C11_ReturnLeavesNothingAllocated ==
    (pc = "returned") =>
        /\ allocated = {}
        /\ (ret = <<0>>) =>
              /\ Count("freeA") = 1 /\ Precedes("copyC", "freeA")
              /\ Count("freeB") = 1 /\ Precedes("copyC", "freeB")
              /\ Count("freeC") = 1 /\ Precedes("copyC", "freeC")

\* ====================================================== threads of a launch
\* The same launch seen thread by thread: the threads of a resident block
\* run interleaved in any order and meet only in the __shared__ arrays and
\* at __syncthreads.  A step is the code of one thread between two barriers
\* that touches shared or global memory: the two tile stores, a pass of a
\* barrier, the loop over i, the store to C.

\* Tile width of the thread-level view: the smallest of the modelled widths,
\* so that a block has few enough threads to interleave them exhaustively.
ThreadTileWidth == CHOOSE w \in TileWidths : \A v \in TileWidths : w <= v

\* A thread: its program position, the loop counters t and i, its
\* accumulator, the number of __syncthreads it has passed, and the products
\* it has accumulated so far (k, the two factors), in order.
NewThread(first) ==
    [pc |-> first, t |-> 0, i |-> 0, Cvalue |-> 0, syncs |-> 0, terms |-> <<>>]

\* Where a thread of the tiled kernel goes after the loop test t < NumTiles.
TiledLoopTest(t) == IF t < NumTiles THEN "load" ELSE "write"

\* Mutation: the test of (Row, Col) placed before the loop over the tiles,
\* as in the naive kernel, so that a thread outside C returns at once.
NewBlockBoundsTestFirst(b) ==
    [th     |-> [w \in Threads(dimBlock) |->
                    NewThread(IF strategy = "Naive" THEN "compute"
                              ELSE IF TiledThread(dimBlock, b, w, 0) = {}
                                   THEN "done"
                                   ELSE TiledLoopTest(0))],
     ds_A   |-> [y \in 0..(TILE_WIDTH - 1) |->
                    [x \in 0..(TILE_WIDTH - 1) |-> garbage]],
     ds_B   |-> [y \in 0..(TILE_WIDTH - 1) |->
                    [x \in 0..(TILE_WIDTH - 1) |-> garbage]]]

\* Block b as it becomes resident: every thread at the start of the kernel,
\* ds_A and ds_B holding what the memory held.
NewBlock(b) ==
    [th     |-> [w \in Threads(dimBlock) |->
                    NewThread(IF strategy = "Naive" THEN "compute"
                                                    ELSE TiledLoopTest(0))],
     ds_A   |-> [y \in 0..(TILE_WIDTH - 1) |->
                    [x \in 0..(TILE_WIDTH - 1) |-> garbage]],
     ds_B   |-> [y \in 0..(TILE_WIDTH - 1) |->
                    [x \in 0..(TILE_WIDTH - 1) |-> garbage]]]

Resident == DOMAIN sm

\* The device state with block b replaced by blk.
WithBlock(b, blk) == [c \in Resident |-> IF c = b THEN blk ELSE sm[c]]

\* Block b with thread w replaced by thr.
WithThread(b, w, thr) == [sm[b] EXCEPT !.th[w] = thr]

\* The global indices a statement touches, each with the buffer it addresses.
InRange(buf, indices) == indices \subseteq DOMAIN buf

\* The indices of A and B the naive loop of thread (Row, Col) reads.
SimpleReadsA(Row) == {Row * numAColumns + i : i \in 0..(numAColumns - 1)}

SimpleReadsB(Col) == {Col + i * numBColumns : i \in 0..(numAColumns - 1)}

\* The products the naive loop accumulates, in order.
RECURSIVE SimpleTerms(_, _, _, _, _, _)
SimpleTerms(A, B, Row, Col, i, terms) ==
    IF i < numAColumns
    THEN SimpleTerms(A, B, Row, Col, i + 1,
                     Append(terms, [k |-> i,
                                    a |-> Read(A, Row * numAColumns + i),
                                    b |-> Read(B, Col + i * numBColumns)]))
    ELSE terms

\* The state after a successful launch: operands on the device, C not yet
\* written, every block of the grid waiting to run, the host at
\* cudaDeviceSynchronize.
InitThreads ==
    /\ strategy \in Strategies
    /\ TILE_WIDTH = ThreadTileWidth
    /\ garbage \in GarbageValues
    /\ numARows \in Dims /\ numAColumns \in Dims
    /\ numBRows = numAColumns /\ numBColumns \in Dims
    /\ hostA = Ramp(numARows, numAColumns, RampBaseA)
    /\ hostB = Ramp(numBRows, numBColumns, RampBaseB)
    /\ numCRows = numARows /\ numCColumns = numBColumns
    /\ hostC = Uninitialised(numCRows * numCColumns)
    /\ deviceA = hostA /\ deviceB = hostB
    /\ deviceC = Uninitialised(numCRows * numCColumns)
    /\ allocated = {"A", "B", "C"}
    /\ dimGrid = HostDimGrid(strategy) /\ dimBlock = DimBlock
    /\ kernel = "running"
    /\ pending = Blocks(dimGrid)
    /\ pc = "sync"
    /\ ret = <<>>
    /\ log = <<"import", "mallocA", "mallocB", "mallocC", "copyA", "copyB",
               "launch">>
    /\ solution = <<>>
    /\ sm = <<>>
    /\ writes = <<>>
    /\ badAccess = FALSE

hostVars == <<inputVars, hostC, numCRows, numCColumns, deviceA, deviceB,
              allocated, dimGrid, dimBlock, pc, ret, log, solution>>

\* The device makes a block of the grid resident: any block not yet run,
\* once the block before it has left.  Blocks share no memory but C, so the
\* threads of one block are interleaved with each other only.
Dispatch ==
    /\ kernel = "running"
    /\ Resident = {}
    /\ \E b \in pending :
        /\ pending' = pending \ {b}
        /\ sm' = [c \in Resident \cup {b} |->
                     IF c = b THEN NewBlock(b) ELSE sm[c]]
    /\ UNCHANGED <<hostVars, deviceC, kernel, writes, badAccess>>

\* Simple kernel, lines 23-29: the bounds test and the whole dot product.
SimpleCompute(b, w) ==
    /\ sm[b].th[w].pc = "compute"
    /\ LET Row == SimpleRow(dimBlock, b, w)
           Col == SimpleCol(dimBlock, b, w)
           me  == sm[b].th[w]
       IN  IF (Row < numCRows) /\ (Col < numCColumns)
           THEN /\ sm' = WithBlock(b, WithThread(b, w,
                     [me EXCEPT
                        !.pc = "write",
                        !.i = numAColumns,
                        !.Cvalue = SimpleLoop(deviceA, deviceB, Row, Col, 0, 0),
                        !.terms = SimpleTerms(deviceA, deviceB, Row, Col,
                                              0, <<>>)]))
                /\ badAccess' = (badAccess
                                   \/ ~InRange(deviceA, SimpleReadsA(Row))
                                   \/ ~InRange(deviceB, SimpleReadsB(Col)))
           ELSE /\ sm' = WithBlock(b, WithThread(b, w, [me EXCEPT !.pc = "done"]))
                /\ UNCHANGED badAccess
    /\ UNCHANGED <<hostVars, deviceC, kernel, pending, writes>>

\* A store C[idx] = v by thread w of block b.
StoreC(b, w, W) ==
    /\ deviceC' = ApplyWrites(deviceC, W)
    /\ writes' = [k \in DOMAIN writes \cup (IF W = {} THEN {} ELSE {<<b, w>>}) |->
                    IF k = <<b, w>> /\ W # {}
                    THEN (IF k \in DOMAIN writes THEN writes[k] ELSE <<>>)
                            \o <<(CHOOSE x \in W : TRUE)[1]>>
                    ELSE writes[k]]
    /\ badAccess' = (badAccess \/ ~InRange(deviceC, {x[1] : x \in W}))

\* Simple kernel, line 30.
SimpleWrite(b, w) ==
    /\ strategy = "Naive"
    /\ sm[b].th[w].pc = "write"
    /\ StoreC(b, w, {<<SimpleRow(dimBlock, b, w) * numCColumns
                          + SimpleCol(dimBlock, b, w),
                       sm[b].th[w].Cvalue>>})
    /\ sm' = WithBlock(b, WithThread(b, w, [sm[b].th[w] EXCEPT !.pc = "done"]))
    /\ UNCHANGED <<hostVars, kernel, pending>>

\* Mutation: the element of A stored into ds_A[tx][ty].
StoreTilesATransposed(b, w) ==
    /\ sm[b].th[w].pc = "load"
    /\ LET me == sm[b].th[w]
       IN  /\ sm' = WithBlock(b,
                  [sm[b] EXCEPT
                     !.ds_A[w[1]][w[2]] = LoadA(deviceA, dimBlock, b, w, me.t),
                     !.ds_B[w[2]][w[1]] = LoadB(deviceB, dimBlock, b, w, me.t),
                     !.th[w].pc = "sync1"])
           /\ badAccess' = (badAccess
                 \/ ~InRange(deviceA, LoadAIndex(dimBlock, b, w, me.t))
                 \/ ~InRange(deviceB, LoadBIndex(dimBlock, b, w, me.t)))
    /\ UNCHANGED <<hostVars, deviceC, kernel, pending, writes>>

\* Mutation: the element of B stored into ds_B[tx][ty].
StoreTilesBTransposed(b, w) ==
    /\ sm[b].th[w].pc = "load"
    /\ LET me == sm[b].th[w]
       IN  /\ sm' = WithBlock(b,
                  [sm[b] EXCEPT
                     !.ds_A[w[2]][w[1]] = LoadA(deviceA, dimBlock, b, w, me.t),
                     !.ds_B[w[1]][w[2]] = LoadB(deviceB, dimBlock, b, w, me.t),
                     !.th[w].pc = "sync1"])
           /\ badAccess' = (badAccess
                 \/ ~InRange(deviceA, LoadAIndex(dimBlock, b, w, me.t))
                 \/ ~InRange(deviceB, LoadBIndex(dimBlock, b, w, me.t)))
    /\ UNCHANGED <<hostVars, deviceC, kernel, pending, writes>>

\* Tiled kernel, lines 51-63: the stores into ds_A[ty][tx] and ds_B[ty][tx].
\* Each thread stores to its own two cells, which no thread reads before
\* the barrier, so the two stores are one step.
StoreTiles(b, w) ==
    /\ sm[b].th[w].pc = "load"
    /\ LET me == sm[b].th[w]
       IN  /\ sm' = WithBlock(b,
                  [sm[b] EXCEPT
                     !.ds_A[w[2]][w[1]] = LoadA(deviceA, dimBlock, b, w, me.t),
                     !.ds_B[w[2]][w[1]] = LoadB(deviceB, dimBlock, b, w, me.t),
                     !.th[w].pc = "sync1"])
           /\ badAccess' = (badAccess
                 \/ ~InRange(deviceA, LoadAIndex(dimBlock, b, w, me.t))
                 \/ ~InRange(deviceB, LoadBIndex(dimBlock, b, w, me.t)))
    /\ UNCHANGED <<hostVars, deviceC, kernel, pending, writes>>

\* Mutation: a barrier that lets every thread through at once.
CanPassAlways(blk, thr) == TRUE

\* __syncthreads(): a thread standing at its k-th barrier goes on once every
\* thread of the block has reached its own k-th barrier or is already past it.
CanPass(blk, thr) ==
    \A v \in DOMAIN blk.th :
        \/ blk.th[v].syncs > thr.syncs
        \/ blk.th[v].syncs = thr.syncs /\ blk.th[v].pc \in {"sync1", "sync2"}

\* Mutation: the __syncthreads between the stores and the reads left out.
SyncThreads1Missing(b, w) ==
    /\ sm[b].th[w].pc = "sync1"
    /\ sm' = WithBlock(b, WithThread(b, w,
                 [sm[b].th[w] EXCEPT !.pc = "acc", !.i = 0]))
    /\ UNCHANGED <<hostVars, deviceC, kernel, pending, writes, badAccess>>

\* Tiled kernel, line 65.
SyncThreads1(b, w) ==
    /\ sm[b].th[w].pc = "sync1"
    /\ CanPass(sm[b], sm[b].th[w])
    /\ sm' = WithBlock(b, WithThread(b, w,
                 [sm[b].th[w] EXCEPT
                    !.pc = "acc",
                    !.i = 0,
                    !.syncs = sm[b].th[w].syncs + 1]))
    /\ UNCHANGED <<hostVars, deviceC, kernel, pending, writes, badAccess>>

\* The products the loop over i accumulates in iteration t, in order.
RECURSIVE TiledTerms(_, _, _, _, _, _)
TiledTerms(ds_A, ds_B, w, t, i, terms) ==
    IF i < TILE_WIDTH
    THEN TiledTerms(ds_A, ds_B, w, t, i + 1,
                    Append(terms, [k |-> t * TILE_WIDTH + i,
                                   a |-> ds_A[w[2]][i],
                                   b |-> ds_B[i][w[1]]]))
    ELSE terms

\* Tiled kernel, lines 67-68: the loop over i.
Accumulate(b, w) ==
    /\ sm[b].th[w].pc = "acc"
    /\ LET blk == sm[b]
           me  == blk.th[w]
       IN  sm' = WithBlock(b, WithThread(b, w,
                 [me EXCEPT
                    !.Cvalue = TiledInner(blk.ds_A, blk.ds_B, w, 0, me.Cvalue),
                    !.terms = TiledTerms(blk.ds_A, blk.ds_B, w, me.t, 0,
                                         me.terms),
                    !.i = TILE_WIDTH,
                    !.pc = "sync2"]))
    /\ UNCHANGED <<hostVars, deviceC, kernel, pending, writes, badAccess>>

\* Mutation: the __syncthreads at the end of the loop body left out.
SyncThreads2Missing(b, w) ==
    /\ sm[b].th[w].pc = "sync2"
    /\ sm' = WithBlock(b, WithThread(b, w,
                 [sm[b].th[w] EXCEPT
                    !.t = sm[b].th[w].t + 1,
                    !.i = 0,
                    !.pc = TiledLoopTest(sm[b].th[w].t + 1)]))
    /\ UNCHANGED <<hostVars, deviceC, kernel, pending, writes, badAccess>>

\* Tiled kernel, lines 70-71 and 48: the barrier, then ++t and the loop test.
SyncThreads2(b, w) ==
    /\ sm[b].th[w].pc = "sync2"
    /\ CanPass(sm[b], sm[b].th[w])
    /\ sm' = WithBlock(b, WithThread(b, w,
                 [sm[b].th[w] EXCEPT
                    !.t = sm[b].th[w].t + 1,
                    !.i = 0,
                    !.syncs = sm[b].th[w].syncs + 1,
                    !.pc = TiledLoopTest(sm[b].th[w].t + 1)]))
    /\ UNCHANGED <<hostVars, deviceC, kernel, pending, writes, badAccess>>

\* Tiled kernel, lines 73-74.
TiledWrite(b, w) ==
    /\ strategy = "Tiled"
    /\ sm[b].th[w].pc = "write"
    /\ StoreC(b, w, TiledThread(dimBlock, b, w, sm[b].th[w].Cvalue))
    /\ sm' = WithBlock(b, WithThread(b, w, [sm[b].th[w] EXCEPT !.pc = "done"]))
    /\ UNCHANGED <<hostVars, kernel, pending>>

\* A block whose threads have all returned leaves the device; the kernel is
\* complete when the last block has left.
Retire(b) ==
    /\ \A w \in Threads(dimBlock) : sm[b].th[w].pc = "done"
    /\ sm' = [c \in Resident \ {b} |-> sm[c]]
    /\ kernel' = IF pending = {} /\ Resident = {b} THEN "complete" ELSE kernel
    /\ UNCHANGED <<hostVars, deviceC, pending, writes, badAccess>>

\* The threads in flight.
Running == {x \in Resident \X Threads(dimBlock) : TRUE}

NextThreads ==
    \/ Dispatch
    \/ \E x \in Running : SimpleCompute(x[1], x[2])
    \/ \E x \in Running : SimpleWrite(x[1], x[2])
    \/ \E x \in Running : StoreTiles(x[1], x[2])
    \/ \E x \in Running : SyncThreads1(x[1], x[2])
    \/ \E x \in Running : Accumulate(x[1], x[2])
    \/ \E x \in Running : SyncThreads2(x[1], x[2])
    \/ \E x \in Running : TiledWrite(x[1], x[2])
    \/ \E b \in Resident : Retire(b)
    \/ Synchronize

SpecThreads == InitThreads /\ [][NextThreads]_vars

\* The hardware scheduler keeps running a block that can run, and a thread
\* that can take a step; the host's wait returns once the kernel is over.
SpecThreadsFair == SpecThreads /\ WF_vars(NextThreads)

\* ============================================ claims on the threads of a block

\* Thread thr has completed both of its stores into ds_A and ds_B for tile t.
StoredTile(thr, t) ==
    \/ thr.t > t
    \/ thr.t = t /\ thr.pc \in {"sync1", "acc", "sync2"}

\* Thread thr has finished the reads of its accumulation loop for tile t.
ReadTile(thr, t) ==
    \/ thr.t > t
    \/ thr.t = t /\ thr.pc = "sync2"

\* C12: in the tiled kernel no thread performs an accumulation read of
\* ds_A or ds_B for tile t before every thread of its block has completed
\* both of its stores for tile t.
C12_NoReadBeforeAllStores ==
    \A b \in Resident : \A w \in Threads(dimBlock) :
        (sm[b].th[w].pc = "acc") =>
            \A v \in Threads(dimBlock) : StoredTile(sm[b].th[v], sm[b].th[w].t)

\* A thread about to read the second tile while another thread of its block
\* still stands at the barrier behind its stores.
C12_Witness ==
    \E b \in Resident : \E w, v \in Threads(dimBlock) :
        /\ sm[b].th[w].pc = "acc" /\ sm[b].th[w].t = 1
        /\ sm[b].th[v].pc = "sync1" /\ sm[b].th[v].t = 1

\* C13: in the tiled kernel no thread stores data of tile t+1 into ds_A or
\* ds_B while a thread of the same block has not finished its accumulation
\* reads of tile t.
C13_NoStoreBeforeAllReads ==
    \A b \in Resident : \A w \in Threads(dimBlock) :
        (sm[b].th[w].pc = "load" /\ sm[b].th[w].t >= 1) =>
            \A v \in Threads(dimBlock) :
                ReadTile(sm[b].th[v], sm[b].th[w].t - 1)

\* A thread about to overwrite ds_A with the second tile while another thread
\* of its block still stands at the barrier behind its reads of the first.
C13_Witness ==
    \E b \in Resident : \E w, v \in Threads(dimBlock) :
        /\ sm[b].th[w].pc = "load" /\ sm[b].th[w].t = 1
        /\ sm[b].th[v].pc = "sync2" /\ sm[b].th[v].t = 0

\* Element (r, c) of a matrix of the given shape held in row-major order,
\* and 0 outside the matrix.
ElementOrZero(M, rows, cols, r, c) ==
    IF r < rows /\ c < cols THEN M[r * cols + c] ELSE 0

\* Every thread of block b has arrived at the first barrier of iteration t,
\* and none has yet left the second.
AtFirstBarrier(b, t) ==
    \A v \in Threads(dimBlock) :
        sm[b].th[v].t = t /\ sm[b].th[v].pc \in {"sync1", "acc", "sync2"}

\* C14: in the tiled kernel, from the first barrier of iteration t until the
\* tile has been consumed, ds_A[ty][tx] is A[Row, t*TILE_WIDTH + tx] of the
\* thread (tx, ty), or 0 where that element lies outside A, and ds_B[ty][tx]
\* is B[t*TILE_WIDTH + ty, Col], or 0 where that element lies outside B; no
\* cell holds a stale or uninitialised value when it is read.
C14_TilesHoldOperandsOrZero ==
    \A b \in Resident : \A t \in 0..(NumTiles - 1) :
        (strategy = "Tiled" /\ AtFirstBarrier(b, t)) =>
            \A w \in Threads(dimBlock) :
                LET tx == w[1]
                    ty == w[2]
                    Row == b[2] * TILE_WIDTH + ty
                    Col == b[1] * TILE_WIDTH + tx
                IN  /\ sm[b].ds_A[ty][tx] =
                          ElementOrZero(hostA, numARows, numAColumns,
                                        Row, t * TILE_WIDTH + tx)
                    /\ sm[b].ds_B[ty][tx] =
                          ElementOrZero(hostB, numBRows, numBColumns,
                                        t * TILE_WIDTH + ty, Col)

\* The second tile of an edge block at its first barrier: rows and columns
\* beyond the operands are padded, and the scratch arrays held the first
\* tile before.
C14_Witness ==
    \E b \in Resident :
        /\ AtFirstBarrier(b, 1)
        /\ \E w \in Threads(dimBlock) : sm[b].th[w].pc = "acc"
        /\ numAColumns % TILE_WIDTH # 0
        /\ numARows % TILE_WIDTH # 0
        /\ garbage # 0

\* The thread's (Row, Col) lies inside C.
InBounds(b, w) == WorkerRow(b, w) < numCRows /\ WorkerCol(b, w) < numCColumns

\* The threads that have stored to index idx of C so far, once per store.
StoresTo(idx) ==
    UNION {{<<k, j>> : j \in {i \in DOMAIN writes[k] : writes[k][i] = idx}} :
              k \in DOMAIN writes}

\* C15: in both kernels a thread whose (Row, Col) lies outside C stores to no
\* cell of C and a thread whose (Row, Col) lies inside stores exactly once,
\* to C[Row * numCColumns + Col]; no two threads store to the same cell,
\* and when the kernel is complete every cell has been stored to once.
C15_OneStorePerCell ==
    /\ \A k \in DOMAIN writes :
          /\ InBounds(k[1], k[2])
          /\ writes[k] = <<WorkerRow(k[1], k[2]) * numCColumns
                              + WorkerCol(k[1], k[2])>>
    /\ \A k1, k2 \in DOMAIN writes : (k1 # k2) => writes[k1] # writes[k2]
    /\ \A b \in Resident : \A w \in Threads(dimBlock) :
          (sm[b].th[w].pc = "done" /\ InBounds(b, w)) => <<b, w>> \in DOMAIN writes
    /\ (kernel = "complete") =>
          \A idx \in 0..(numCRows * numCColumns - 1) :
              Cardinality(StoresTo(idx)) = 1

\* A completed launch of several blocks, some of whose threads lie outside C.
C15_Witness ==
    /\ kernel = "complete"
    /\ Cardinality(Blocks(dimGrid)) > 1
    /\ Cardinality(DOMAIN writes) = numCRows * numCColumns
    /\ \E b \in Blocks(dimGrid) : \E w \in Threads(dimBlock) : ~InBounds(b, w)

\* ================================================ the loop over the tiles
\* One thread of the tiled kernel followed through its loop over t with the
\* source's tile width and a shared dimension that may be 0.  The barriers
\* let the thread through in every iteration, so an iteration is one step.

\* const unsigned TILE_WIDTH = 16.
SourceTileWidth == 16

\* Largest shared dimension n of the loop view, and the number of iterations
\* after which a thread is followed no further.
MaxShared == 40
MaxIterations == 4

\* The threads followed: one inside C and one outside.
FollowedThreads == {<<0, 0>>, <<1, 0>>}

InitTileLoop ==
    /\ strategy = "Tiled"
    /\ TILE_WIDTH = SourceTileWidth
    /\ garbage \in GarbageValues
    /\ numARows = 1 /\ numAColumns \in 0..MaxShared
    /\ numBRows = numAColumns /\ numBColumns = 1
    /\ hostA = Ramp(numARows, numAColumns, RampBaseA)
    /\ hostB = Ramp(numBRows, numBColumns, RampBaseB)
    /\ numCRows = numARows /\ numCColumns = numBColumns
    /\ hostC = Uninitialised(numCRows * numCColumns)
    /\ deviceA = hostA /\ deviceB = hostB
    /\ deviceC = Uninitialised(numCRows * numCColumns)
    /\ allocated = {"A", "B", "C"}
    /\ dimGrid = HostDimGrid(strategy) /\ dimBlock = DimBlock
    /\ kernel = "running"
    /\ pending = {}
    /\ pc = "sync"
    /\ ret = <<>>
    /\ log = <<"import", "mallocA", "mallocB", "mallocC", "copyA", "copyB",
               "launch">>
    /\ solution = <<>>
    /\ \E w \in FollowedThreads :
          sm = [b \in {<<0, 0>>} |->
                  [NewBlock(b) EXCEPT
                      !.th = [v \in {w} |-> NewThread(TiledLoopTest(0))]]]
    /\ writes = <<>>
    /\ badAccess = FALSE

\* Tiled kernel, lines 48-71: one iteration of the loop over t, the tiles
\* as the threads of the block have stored them at the first barrier.
TileIteration(b, w) ==
    /\ sm[b].th[w].pc = "load"
    /\ sm[b].th[w].t < MaxIterations
    /\ LET me   == sm[b].th[w]
           ds_A == TileA(deviceA, dimBlock, b, me.t)
           ds_B == TileB(deviceB, dimBlock, b, me.t)
       IN  sm' = WithBlock(b,
                   [sm[b] EXCEPT
                      !.ds_A = ds_A,
                      !.ds_B = ds_B,
                      !.th[w] = [me EXCEPT
                          !.Cvalue = TiledInner(ds_A, ds_B, w, 0, me.Cvalue),
                          !.terms = TiledTerms(ds_A, ds_B, w, me.t, 0, me.terms),
                          !.syncs = me.syncs + 2,
                          !.t = me.t + 1,
                          !.pc = TiledLoopTest(me.t + 1)]])
    /\ UNCHANGED <<hostVars, deviceC, kernel, pending, writes, badAccess>>

Followed == {x \in Resident \X FollowedThreads : x[2] \in DOMAIN sm[x[1]].th}

NextTileLoop ==
    \/ \E x \in Followed : TileIteration(x[1], x[2])
    \/ \E x \in Followed : TiledWrite(x[1], x[2])

SpecTileLoop == InitTileLoop /\ [][NextTileLoop]_vars

\* ceil(n / w) for n >= 0.
TilesNeeded(n, w) == IF n = 0 THEN 0 ELSE CeilDiv(n, w)

\* C16: for every shared dimension n >= 0 a thread of the tiled kernel
\* executes exactly ceil(n / TILE_WIDTH) iterations of the loop over t,
\* with t = 0 .. ceil(n / TILE_WIDTH) - 1; for n = 0 it executes none and
\* stores 0 to its cell of C.
C16_IterationsAreCeilOfShared ==
    \A x \in Followed :
        LET thr == sm[x[1]].th[x[2]]
        IN  /\ thr.t <= TilesNeeded(numAColumns, TILE_WIDTH)
            /\ thr.pc \in {"write", "done"} =>
                  thr.t = TilesNeeded(numAColumns, TILE_WIDTH)
            /\ (numAColumns = 0 /\ thr.pc = "done" /\ InBounds(x[1], x[2])) =>
                  deviceC[0] = 0

\* The sum of the products of a sequence of terms.
RECURSIVE SumTerms(_)
SumTerms(terms) ==
    IF terms = <<>> THEN 0
    ELSE SumTerms(SubSeq(terms, 1, Len(terms) - 1))
            + terms[Len(terms)].a * terms[Len(terms)].b

\* The terms of a sequence whose index k lies inside the shared dimension.
TermsInside(terms) ==
    LET Inside(e) == e.k < numAColumns
    IN  SelectSeq(terms, Inside)

\* C17: a thread of the tiled kernel inside C has, at the end of its loop,
\* added the products A[Row, k] * B[k, Col] with k < n for k = 0, 1, ..,
\* n - 1 in this order, each once, which is the sequence of the naive
\* kernel's loop for the same (Row, Col); every other term it has added has
\* a zero-padded factor.
C17_TiledVisitsNaiveSequence ==
    \A b \in Resident : \A w \in Threads(dimBlock) :
        (strategy = "Tiled" /\ sm[b].th[w].pc \in {"write", "done"}
            /\ InBounds(b, w)) =>
            LET thr == sm[b].th[w]
                Row == TiledRow(dimBlock, b, w)
                Col == TiledCol(dimBlock, b, w)
            IN  /\ TermsInside(thr.terms) =
                      [j \in 1..numAColumns |->
                          [k |-> j - 1,
                           a |-> hostA[Row * numAColumns + (j - 1)],
                           b |-> hostB[(j - 1) * numBColumns + Col]]]
                /\ TermsInside(thr.terms) =
                      SimpleTerms(deviceA, deviceB, Row, Col, 0, <<>>)
                /\ \A j \in 1..Len(thr.terms) :
                      (thr.terms[j].k >= numAColumns) =>
                          (thr.terms[j].a = 0 \/ thr.terms[j].b = 0)
                /\ thr.Cvalue = SumTerms(thr.terms)

\* A thread inside C at the end of a loop of two tiles, the second of them
\* padded.
C17_Witness ==
    \E b \in Resident : \E w \in Threads(dimBlock) :
        /\ strategy = "Tiled" /\ sm[b].th[w].pc = "write" /\ InBounds(b, w)
        /\ numAColumns = 3
        /\ Len(sm[b].th[w].terms) = 4
        /\ b # <<0, 0>>

\* C18: in the tiled kernel every thread of a block, inside C or not, passes
\* the same barriers the same number of times, two per iteration of the loop
\* over the tiles, and with threads that keep being scheduled every block
\* leaves the device, the kernel completes and the host's
\* cudaDeviceSynchronize returns.
C18_BarriersMatchAndLaunchEnds ==
    /\ [](\A b \in Resident : \A w \in Threads(dimBlock) :
            /\ sm[b].th[w].syncs <= 2 * NumTiles
            /\ (strategy = "Tiled" /\ sm[b].th[w].pc \in {"write", "done"}) =>
                  sm[b].th[w].syncs = 2 * NumTiles)
    /\ (strategy = "Tiled") ~> (kernel = "complete" /\ pc = "copyC")

\* The host past its wait after a tiled launch of several blocks with
\* threads outside C.
C18_Witness ==
    /\ strategy = "Tiled" /\ kernel = "complete" /\ pc = "copyC"
    /\ Cardinality(Blocks(dimGrid)) > 1
    /\ \E b \in Blocks(dimGrid) : \E w \in Threads(dimBlock) : ~InBounds(b, w)

\* C19: with A.columns = B.rows and every dimension at least 1, each index
\* of global memory a thread of either kernel uses lies inside the buffer
\* it addresses: reads of A in [0, A.rows * A.columns), reads of B in
\* [0, B.rows * B.columns), writes of C in [0, C.rows * C.columns).
C19_IndicesInsideBuffers ==
    /\ ~badAccess
    /\ \A b \in Resident : \A w \in Threads(dimBlock) :
          LET thr == sm[b].th[w]
          IN  /\ (strategy = "Tiled" /\ thr.pc = "load") =>
                    /\ LoadAIndex(dimBlock, b, w, thr.t)
                          \subseteq Cells(numARows, numAColumns)
                    /\ LoadBIndex(dimBlock, b, w, thr.t)
                          \subseteq Cells(numBRows, numBColumns)
              /\ (strategy = "Naive" /\ thr.pc = "compute" /\ InBounds(b, w)) =>
                    /\ SimpleReadsA(WorkerRow(b, w))
                          \subseteq Cells(numARows, numAColumns)
                    /\ SimpleReadsB(WorkerCol(b, w))
                          \subseteq Cells(numBRows, numBColumns)
              /\ (thr.pc = "write" /\ InBounds(b, w)) =>
                    WorkerRow(b, w) * numCColumns + WorkerCol(b, w)
                        \in Cells(numCRows, numCColumns)

\* The last block of a grid in a padded second tile: one thread about to
\* read an element of A, another about to store 0 instead.
C19_Witness ==
    \E b \in Resident : \E w, v \in Threads(dimBlock) :
        /\ sm[b].th[w].pc = "load" /\ sm[b].th[w].t = 1
        /\ sm[b].th[v].pc = "load" /\ sm[b].th[v].t = 1
        /\ LoadAIndex(dimBlock, b, w, 1) # {}
        /\ LoadAIndex(dimBlock, b, v, 1) = {}
        /\ b[2] = dimGrid.y - 1 /\ dimGrid.y > 1
        /\ ~badAccess

\* C20: for fixed operands A and B the content of C at the end of a launch
\* of either kernel does not depend on the order in which the blocks ran or
\* on how the threads of a block were interleaved between the barriers: it
\* is the one value the operands determine, the product of A and B, and
\* every cell holds that value from the moment a thread has stored to it.
C20_ResultIndependentOfSchedule ==
    LET Product == Reference(hostA, hostB, numARows, numAColumns, numBColumns)
    IN  /\ (kernel = "complete") => deviceC = Product
        /\ \A k \in DOMAIN writes : \A j \in DOMAIN writes[k] :
              writes[k][j] \in DOMAIN deviceC =>
                  deviceC[writes[k][j]] = Product[writes[k][j]]

\* The end of a tiled launch of several blocks and two tiles over scratch
\* memory that did not start as zero.
C20_Witness ==
    /\ kernel = "complete" /\ Resident = {} /\ pending = {}
    /\ strategy = "Tiled" /\ NumTiles > 1 /\ garbage # 0
    /\ Cardinality(Blocks(dimGrid)) = 4
====
